---- MODULE Spec2Model ----
(***************************************************************************)
(* HasteFS (packages/metro-file-map/src/HasteFS.js): an in-memory index    *)
(* from root-relative path keys to file metadata arrays.                   *)
(*                                                                         *)
(* Representation.                                                         *)
(*  - A path string is the sequence of its '/'-separated segments, i.e.    *)
(*    what s.split('/') returns: "src/a.js" is <<"src","a.js">>,           *)
(*    "/proj" is <<"","proj">>, "" is <<"">>, "/" is <<"","">>.  This is   *)
(*    one-to-one with the strings over the segment alphabet.  POSIX        *)
(*    conventions (path.sep = '/').                                        *)
(*  - A JavaScript primitive is a record [t, n, s]: t is its typeof tag.   *)
(*  - A Map is the sequence of its entries in insertion order.             *)
(*  - A FileMetaData array is a 7-tuple indexed by the H constants (+1).   *)
(*  - Array identity: a slot is a place that holds an array, <<"files",    *)
(*    key>> or <<"snapshot", key>>; shared is the set of the groups of two *)
(*    or more slots that hold one and the same array object.               *)
(***************************************************************************)
EXTENDS Integers, Sequences, FiniteSets, TLC

VARIABLES rootDir, files, call, ret, snapshot, shared

vars == <<rootDir, files, call, ret, snapshot, shared>>

(***************************************************************************)
(* Bounds of the model.                                                    *)
(***************************************************************************)
MaxFiles == 2

(***************************************************************************)
(* JavaScript values.                                                      *)
(***************************************************************************)
Undef == [t |-> "undefined", n |-> 0, s |-> <<>>]
Num(k) == [t |-> "number", n |-> k, s |-> <<>>]
Str(chars) == [t |-> "string", n |-> 0, s |-> chars]

\* typeof v === 'number'
IsNumber(v) == v.t = "number"

\* JavaScript truthiness of a primitive: undefined, 0 and '' are falsy.
Truthy(v) ==
  CASE v.t = "undefined" -> FALSE
    [] v.t = "number" -> v.n # 0
    [] OTHER -> v.s # <<>>

\* v ?? null of a primitive; null and undefined are both rendered Undef.
Nullish(v) == v.t = "undefined"

(***************************************************************************)
(* Field layout of a metadata array and the dependency delimiter           *)
(* (./constants: ID 0, MTIME 1, SIZE 2, VISITED 3, DEPENDENCIES 4, SHA1 5, *)
(* SYMLINK 6; DEPENDENCY_DELIM '\0'), as 1-based tuple indices.            *)
(***************************************************************************)
H_ID == 1
H_MTIME == 2
H_SIZE == 3
H_VISITED == 4
H_DEPENDENCIES == 5
H_SHA1 == 6
H_SYMLINK == 7
H_DEPENDENCY_DELIM == "NUL"

(***************************************************************************)
(* Strings as character sequences, and the spelling of each path segment.  *)
(***************************************************************************)
SegChars(seg) ==
  CASE seg = "" -> <<>>
    [] seg = "." -> <<".">>
    [] seg = ".." -> <<".", ".">>
    [] seg = "proj" -> <<"p", "r", "o", "j">>
    [] seg = "src" -> <<"s", "r", "c">>
    [] seg = "sub" -> <<"s", "u", "b">>
    [] seg = "other" -> <<"o", "t", "h", "e", "r">>
    [] seg = "a.js" -> <<"a", ".", "j", "s">>
    [] seg = "b.js" -> <<"b", ".", "j", "s">>
    [] seg = "x.js" -> <<"x", ".", "j", "s">>
    [] seg = "..x.js" -> <<".", ".", "x", ".", "j", "s">>

RECURSIVE PathChars(_)
\* The characters of a path string: its segments joined by '/'.
PathChars(p) ==
  IF Len(p) = 1 THEN SegChars(p[1])
  ELSE SegChars(p[1]) \o <<"/">> \o PathChars(Tail(p))

\* String.prototype.startsWith
StartsWith(chars, prefix) ==
  /\ Len(chars) >= Len(prefix)
  /\ SubSeq(chars, 1, Len(prefix)) = prefix

\* String.prototype.endsWith
EndsWith(chars, suffix) ==
  /\ Len(chars) >= Len(suffix)
  /\ SubSeq(chars, Len(chars) - Len(suffix) + 1, Len(chars)) = suffix

\* String.prototype.includes for a one-character needle
Includes(chars, c) == \E i \in 1..Len(chars) : chars[i] = c

\* chars.replace(/\\/g, '/')
ReplaceBackslashes(chars) ==
  [i \in 1..Len(chars) |-> IF chars[i] = "\\" THEN "/" ELSE chars[i]]

RECURSIVE SplitFrom(_, _, _)
\* String.prototype.split(delim) of a non-empty string: cur is the component
\* being read, i the next character.
SplitFrom(chars, i, cur) ==
  IF i > Len(chars) THEN <<cur>>
  ELSE IF chars[i] = H_DEPENDENCY_DELIM
       THEN <<cur>> \o SplitFrom(chars, i + 1, <<>>)
       ELSE SplitFrom(chars, i + 1, Append(cur, chars[i]))

Split(chars) == SplitFrom(chars, 1, <<>>)

(***************************************************************************)
(* Node's path module (POSIX) and ./lib/fast_path.                         *)
(***************************************************************************)
\* path.isAbsolute: the string starts with '/'.
IsAbsolute(p) == Len(p) >= 2 /\ p[1] = ""

\* The string ends with '/'.
HasTrailingSeparator(p) == Len(p) >= 2 /\ p[Len(p)] = ""

RECURSIVE NormalizeStringFrom(_, _, _, _)
\* Node's normalizeString: drops empty and '.' segments, and lets '..' cancel
\* the segment before it; res is the list of segments kept so far.
NormalizeStringFrom(p, i, res, allowAboveRoot) ==
  IF i > Len(p) THEN res
  ELSE LET seg == p[i] IN
    IF seg = "" \/ seg = "." THEN NormalizeStringFrom(p, i + 1, res, allowAboveRoot)
    ELSE IF seg = ".."
      THEN IF res # <<>> /\ res[Len(res)] # ".."
           THEN NormalizeStringFrom(p, i + 1, SubSeq(res, 1, Len(res) - 1), allowAboveRoot)
           ELSE IF allowAboveRoot
                THEN NormalizeStringFrom(p, i + 1, Append(res, ".."), allowAboveRoot)
                ELSE NormalizeStringFrom(p, i + 1, res, allowAboveRoot)
      ELSE NormalizeStringFrom(p, i + 1, Append(res, seg), allowAboveRoot)

NormalizeString(p, allowAboveRoot) == NormalizeStringFrom(p, 1, <<>>, allowAboveRoot)

\* path.normalize
PathNormalize(p) ==
  IF p = <<"">> THEN <<".">>
  ELSE LET isAbs == IsAbsolute(p)
           trailing == HasTrailingSeparator(p)
           res == NormalizeString(p, ~isAbs)
       IN IF res = <<>>
          THEN IF isAbs THEN <<"", "">>
               ELSE IF trailing THEN <<".", "">> ELSE <<".">>
          ELSE (IF isAbs THEN <<"">> ELSE <<>>) \o res
               \o (IF trailing THEN <<"">> ELSE <<>>)

\* path.resolve of an absolute path: its segment names, '.' and '..' resolved.
ResolvedNames(p) == NormalizeString(p, FALSE)

\* path.resolve(a, b) for an absolute a and a relative b, as a path string.
PathResolve(a, b) ==
  LET names == ResolvedNames(a \o b)
  IN IF names = <<>> THEN <<"", "">> ELSE <<"">> \o names

RECURSIVE CommonPrefixLen(_, _)
CommonPrefixLen(a, b) ==
  IF a = <<>> \/ b = <<>> \/ a[1] # b[1] THEN 0
  ELSE 1 + CommonPrefixLen(Tail(a), Tail(b))

\* path.relative(from, to) for absolute from and to.
PathRelative(from, to) ==
  IF from = to THEN <<"">>
  ELSE LET f == ResolvedNames(from)
           t == ResolvedNames(to)
           k == CommonPrefixLen(f, t)
           out == [i \in 1..(Len(f) - k) |-> ".."] \o SubSeq(t, k + 1, Len(t))
       IN IF out = <<>> THEN <<"">> ELSE out

\* fastPath.relative: strip "rootDir/" when filename starts with it, else
\* fall back to path.relative.
FastPathRelative(root, filename) ==
  IF Len(filename) > Len(root) /\ SubSeq(filename, 1, Len(root)) = root
  THEN SubSeq(filename, Len(root) + 1, Len(filename))
  ELSE PathRelative(root, filename)

\* fastPath.resolve: path.resolve for keys that start with '../', else the
\* concatenation rootDir + '/' + key.
FastPathResolve(root, key) ==
  IF Len(key) >= 2 /\ key[1] = ".."
  THEN PathResolve(root, key)
  ELSE root \o key

(***************************************************************************)
(* JavaScript Map, as the sequence of its [key, value] entries.            *)
(***************************************************************************)
\* What Map.prototype.get returns for a missing key.
undefined == <<>>

MapHas(m, k) == \E i \in 1..Len(m) : m[i].key = k

MapGet(m, k) ==
  IF MapHas(m, k) THEN m[CHOOSE i \in 1..Len(m) : m[i].key = k].value
  ELSE undefined

\* Map.prototype.set: an existing key keeps its place in the iteration order.
MapSet(m, k, v) ==
  IF MapHas(m, k)
  THEN [i \in 1..Len(m) |-> IF m[i].key = k THEN [key |-> k, value |-> v] ELSE m[i]]
  ELSE Append(m, [key |-> k, value |-> v])

MapDelete(m, k) == SelectSeq(m, LAMBDA e : e.key # k)

RECURSIVE NewMapFrom(_, _, _)
\* new Map(iterable): the entries are set one after the other.
NewMapFrom(entries, i, m) ==
  IF i > Len(entries) THEN m
  ELSE NewMapFrom(entries, i + 1, MapSet(m, entries[i].key, entries[i].value))

NewMap(entries) == NewMapFrom(entries, 1, <<>>)

\* [...v]: a new array with the elements of v.
Spread(v) == [i \in 1..Len(v) |-> v[i]]

(***************************************************************************)
(* Values returned to the caller.                                          *)
(***************************************************************************)
RetVoid == [kind |-> "void", val |-> <<>>]
RetNull == [kind |-> "null", val |-> <<>>]
RetMetadata(r) == [kind |-> "metadata", val |-> r]
RetBool(b) == [kind |-> "boolean", val |-> b]
RetValue(v) == [kind |-> "value", val |-> v]
RetArray(a) == [kind |-> "array", val |-> a]
RetStats(ft, mt) == [kind |-> "stats", val |-> [fileType |-> ft, modifiedTime |-> mt]]
RetThrow(msg) == [kind |-> "throw", val |-> msg]
RetMap(m) == [kind |-> "map", val |-> m]

(***************************************************************************)
(* HasteFS: the pure part of each method, on (#rootDir, #files).           *)
(***************************************************************************)
constructor(root, fs) == [rootDir |-> root, files |-> fs]

normalizePath(root, p) ==
  IF IsAbsolute(p) THEN FastPathRelative(root, p) ELSE PathNormalize(p)

getFileData(root, fs, p) ==
  LET optimisticMetadata == MapGet(fs, p)
  IN IF optimisticMetadata # undefined THEN optimisticMetadata
     ELSE MapGet(fs, normalizePath(root, p))

\* remove: [files after, returned value]
remove(root, fs, p) ==
  LET normalPath == normalizePath(root, p)
      fileMetadata == MapGet(fs, normalPath)
  IN IF fileMetadata = undefined
     THEN [files |-> fs, ret |-> RetNull]
     ELSE [files |-> MapDelete(fs, normalPath), ret |-> RetMetadata(fileMetadata)]

RECURSIVE BulkFrom(_, _, _)
BulkFrom(fs, changedFiles, i) ==
  IF i > Len(changedFiles) THEN fs
  ELSE BulkFrom(MapSet(fs, changedFiles[i].key, changedFiles[i].value),
                changedFiles, i + 1)

bulkAddOrModify(fs, changedFiles) == BulkFrom(fs, changedFiles, 1)

addOrModify(root, fs, p, metadata) == MapSet(fs, normalizePath(root, p), metadata)

\* The callback ([k, v]) => [k, v]: the snapshot holds the index's own arrays.
SnapshotEntryNoCopy(e) == [key |-> e.key, value |-> e.value, copy |-> FALSE]

\* The callback of Array.from in getSerializableSnapshot: ([k, v]) => [k, [...v]].
\* copy records that the value is a new array object, not the index's own.
SnapshotEntry(e) == [key |-> e.key, value |-> Spread(e.value), copy |-> TRUE]

\* getSerializableSnapshot leaving out the last entry of #files.
getSerializableSnapshotDropLast(fs) ==
  [map |-> NewMap([i \in 1..(Len(fs) - 1) |->
                     [key |-> fs[i].key, value |-> Spread(fs[i].value)]]),
   aliased |-> {}]

\* getSerializableSnapshot: the new Map, and the keys whose array object the
\* new Map shares with #files (none, since every value is spread).
getSerializableSnapshot(fs) ==
  LET entries == [i \in 1..Len(fs) |-> SnapshotEntry(fs[i])]
  IN [map |-> NewMap([i \in 1..Len(entries) |->
                        [key |-> entries[i].key, value |-> entries[i].value]]),
      aliased |-> {entries[i].key : i \in {j \in 1..Len(entries) : ~entries[j].copy}}]

\* (fileMetadata && fileMetadata[field]) ?? null
FieldOrNull(fileMetadata, field) ==
  IF fileMetadata = undefined THEN RetNull
  ELSE IF Nullish(fileMetadata[field]) THEN RetNull
       ELSE RetValue(fileMetadata[field])

getModuleName(root, fs, p) == FieldOrNull(getFileData(root, fs, p), H_ID)

getSize(root, fs, p) == FieldOrNull(getFileData(root, fs, p), H_SIZE)

getSha1(root, fs, p) == FieldOrNull(getFileData(root, fs, p), H_SHA1)

\* getDependencies splitting whatever the dependency field holds: [''] for a
\* record without dependencies.
getDependenciesAlwaysSplit(root, fs, p) ==
  LET fileMetadata == getFileData(root, fs, p)
  IN IF fileMetadata # undefined
     THEN RetArray(Split(fileMetadata[H_DEPENDENCIES].s))
     ELSE RetNull

getDependencies(root, fs, p) ==
  LET fileMetadata == getFileData(root, fs, p)
  IN IF fileMetadata # undefined
     THEN IF Truthy(fileMetadata[H_DEPENDENCIES])
          THEN RetArray(Split(fileMetadata[H_DEPENDENCIES].s))
          ELSE RetArray(<<>>)
     ELSE RetNull

exists(root, fs, p) == RetBool(getFileData(root, fs, p) # undefined)

\* linkStats without the invariant() call: a missing mtime comes back as it is.
linkStatsNoInvariant(root, fs, p) ==
  LET fileMetadata == getFileData(root, fs, p)
  IN IF fileMetadata = undefined THEN RetNull
     ELSE RetStats(IF fileMetadata[H_SYMLINK] = Num(0) THEN "f" ELSE "l",
                   fileMetadata[H_MTIME].n)

linkStats(root, fs, p) ==
  LET fileMetadata == getFileData(root, fs, p)
  IN IF fileMetadata = undefined THEN RetNull
     ELSE LET fileType == IF fileMetadata[H_SYMLINK] = Num(0) THEN "f" ELSE "l"
              modifiedTime == fileMetadata[H_MTIME]
          IN IF ~IsNumber(modifiedTime)
             THEN RetThrow("File in HasteFS missing modified time")
             ELSE RetStats(fileType, modifiedTime.n)

getFileIterator(fs) == [i \in 1..Len(fs) |-> fs[i].key]

getAbsoluteFileIterator(root, fs) ==
  [i \in 1..Len(fs) |-> FastPathResolve(root, fs[i].key)]

getAllFiles(root, fs) == getAbsoluteFileIterator(root, fs)

(***************************************************************************)
(* Filters: the regular expressions a caller may pass (without the g or y  *)
(* flag, so that test() keeps no state between calls).                     *)
(*   "direct"  /^\.\/[^\/]+\.js$/     "nested"  /^\.\/.*\.js$/             *)
(*   "any"     /^/                                                         *)
(***************************************************************************)
Filters == {"direct", "nested", "any"}

\* filter.test(chars)
RegExpTest(filter, chars) ==
  CASE filter = "direct" ->
         /\ StartsWith(chars, <<".", "/">>)
         /\ EndsWith(chars, <<".", "j", "s">>)
         /\ Len(chars) >= 6
         /\ ~Includes(SubSeq(chars, 3, Len(chars)), "/")
    [] filter = "nested" ->
         /\ StartsWith(chars, <<".", "/">>)
         /\ EndsWith(chars, <<".", "j", "s">>)
         /\ Len(chars) >= 5
    [] OTHER -> TRUE

RECURSIVE MatchFromNoPrefix(_, _, _, _, _)
\* matchFilesWithContext testing the filter against the relative path itself,
\* without the './' in front.
MatchFromNoPrefix(absFiles, i, root, recursive, filter) ==
  IF i > Len(absFiles) THEN <<>>
  ELSE LET file == absFiles[i]
           filePath == PathChars(FastPathRelative(root, file))
           isUnderRoot == filePath # <<>> /\ ~StartsWith(filePath, <<".", ".">>)
           rest == MatchFromNoPrefix(absFiles, i + 1, root, recursive, filter)
       IN IF ~isUnderRoot THEN rest
          ELSE IF ~recursive /\ Includes(filePath, "/") THEN rest
          ELSE IF RegExpTest(filter, ReplaceBackslashes(filePath))
               THEN <<file>> \o rest
               ELSE rest

RECURSIVE MatchFrom(_, _, _, _, _)
\* The loop of matchFilesWithContext over the absolute paths, from the i-th.
MatchFrom(absFiles, i, root, recursive, filter) ==
  IF i > Len(absFiles) THEN <<>>
  ELSE LET file == absFiles[i]
           filePath == PathChars(FastPathRelative(root, file))
           isUnderRoot == filePath # <<>> /\ ~StartsWith(filePath, <<".", ".">>)
           rest == MatchFrom(absFiles, i + 1, root, recursive, filter)
       IN IF ~isUnderRoot THEN rest
          ELSE IF ~recursive /\ Includes(filePath, "/") THEN rest
          ELSE IF RegExpTest(filter, <<".", "/">> \o ReplaceBackslashes(filePath))
               THEN <<file>> \o rest
               ELSE rest

matchFilesWithContext(thisRoot, fs, root, recursive, filter) ==
  MatchFrom(getAbsoluteFileIterator(thisRoot, fs), 1, root, recursive, filter)

(***************************************************************************)
(* Inputs.                                                                 *)
(***************************************************************************)
ProjRoot == <<"", "proj">>
SrcDir == <<"", "proj", "src">>

\* The dependency specifiers "b.js" and "c.js", and "b.js<DELIM>c.js".
DepB == <<"b", ".", "j", "s">>
DepC == <<"c", ".", "j", "s">>
DepsBC == DepB \o <<H_DEPENDENCY_DELIM>> \o DepC

\* A module with two dependencies, a regular file.
MetaA == <<Str(<<"m">>), Num(1), Num(10), Num(0), Str(DepsBC), Str(<<"1">>), Num(0)>>
\* No module name, no dependency field, no hash; a symlink.
MetaB == <<Undef, Num(2), Num(0), Num(0), Undef, Undef, Num(1)>>
\* An empty dependency string, a symlink with a target; the mtime is missing.
MetaC == <<Str(<<"n">>), Undef, Num(5), Num(1), Str(<<>>), Str(<<"3">>), Str(<<"t">>)>>

Records == {MetaA, MetaB, MetaC}

\* Paths given to the mutations and point queries.
PointPaths ==
  { <<"src", "a.js">>,                  \* src/a.js
    <<"", "proj", "src", "a.js">>,      \* /proj/src/a.js
    <<"", "proj", "src", "", "a.js">>,  \* /proj/src//a.js
    <<"src", "", "a.js">>,              \* src//a.js
    <<"..", "proj", "src", "a.js">> }   \* ../proj/src/a.js

\* Paths given to the mutations ahead of a context query.
MatchPaths ==
  { <<"src", "a.js">>,                  \* src/a.js
    <<"", "proj", "src", "sub", "b.js">>, \* /proj/src/sub/b.js
    <<"", "proj", "src", "", "a.js">>,  \* /proj/src//a.js
    <<"", "other", "x.js">>,            \* /other/x.js
    <<"src", "..x.js">> }               \* src/..x.js


\* Paths and records given to the mutations around a snapshot; a caller
\* also passes the arrays of the snapshot it holds.
SnapPaths ==
  { <<"src", "a.js">>,                  \* src/a.js
    <<"", "proj", "src", "", "a.js">> } \* /proj/src//a.js

SnapRecords == {MetaA}

\* The keys of a batch a caller builds from the entries of a snapshot: what
\* the index made of SnapPaths.
SnapKeys == {normalizePath(ProjRoot, p) : p \in SnapPaths}

Paths == PointPaths \cup MatchPaths \cup SnapPaths

\* Keys a bulk caller may supply: already canonical.
BulkKeys == { <<"src", "a.js">>, <<"src", "sub", "b.js">> }

BulkEntries == {[key |-> k, value |-> md] : k \in BulkKeys, md \in Records}

\* A change batch: a Map of one or two entries.
Batches ==
  {<<e>> : e \in BulkEntries}
  \cup {<<pair[1], pair[2]>> :
          pair \in {q \in BulkEntries \X BulkEntries : q[1].key # q[2].key}}

QueryRoots == {ProjRoot, SrcDir}

\* The file maps an index is constructed from.
InitialFiles == {<<>>, <<[key |-> <<"src", "a.js">>, value |-> MetaA]>>}

(***************************************************************************)
(* State: #rootDir, #files, the last call with its arguments, what it      *)
(* returned, the snapshot Map a caller holds, and which slots hold the     *)
(* same array object.                                                      *)
(***************************************************************************)
NoPath == <<>>
NoMetadata == <<>>

\* Where the array a caller passes comes from: a new array object, the
\* object a slot holds, or (in a batch) the new array object the batch
\* already carries under another key.
NewArray == <<"new", NoPath>>
FilesSlot(k) == <<"files", k>>
SnapshotSlot(k) == <<"snapshot", k>>
BatchEntry(k) == <<"batch", k>>

Call(op, p, md) ==
  [op |-> op, path |-> p, metadata |-> md, batch |-> <<>>, sources |-> <<>>,
   root |-> NoPath, recursive |-> FALSE, filter |-> "any"]

\* handed: the snapshot keys whose array object the caller has itself put
\* into #files, or taken from #files, since the snapshot was returned.
NoSnapshot == [taken |-> FALSE, map |-> <<>>, handed |-> {}]

Init ==
  /\ rootDir = ProjRoot
  /\ files \in InitialFiles
  /\ call = Call("constructor", NoPath, NoMetadata)
  /\ ret = RetVoid
  /\ snapshot = NoSnapshot
  /\ shared = {}

\* The slots that hold the array object slot s holds.
GroupOf(sh, s) == IF \E g \in sh : s \in g THEN CHOOSE g \in sh : s \in g ELSE {s}

\* Slot s no longer holds its array object: the entry was replaced or deleted.
Detach(sh, s) == {g \in {h \ {s} : h \in sh} : Cardinality(g) >= 2}

\* Slot s is set to the array object of src: files.set(k, metadata) stores the
\* reference it is given, without a copy.
Attach(sh, s, src) ==
  IF src = NewArray THEN Detach(sh, s)
  ELSE IF src \in GroupOf(sh, s) THEN sh
  ELSE LET d == Detach(sh, s)
           g == GroupOf(d, src)
       IN (d \ {g}) \cup {g \cup {s}}

\* The array a slot holds.
SlotValue(s) ==
  IF s[1] = "files" THEN MapGet(files, s[2]) ELSE MapGet(snapshot.map, s[2])

Slots ==
  {FilesSlot(files[i].key) : i \in 1..Len(files)}
  \cup {SnapshotSlot(snapshot.map[i].key) : i \in 1..Len(snapshot.map)}

\* The objects a caller can pass as the array md: a new one, or one it holds
\* already (an array of the snapshot, an array it gave to the index).
SourcesOf(md) == {NewArray} \cup {s \in Slots : SlotValue(s) = md}

\* The snapshot keys that hold the array object of src.
SnapshotKeysOf(sh, src) == {s[2] : s \in {t \in GroupOf(sh, src) : t[1] = "snapshot"}}

AddOrModify(p, md, src) ==
  /\ src \in SourcesOf(md)
  /\ files' = addOrModify(rootDir, files, p, md)
  /\ Len(files') <= MaxFiles
  /\ call' = [Call("addOrModify", p, md) EXCEPT !.sources = <<src>>]
  /\ ret' = RetVoid
  /\ shared' = Attach(shared, FilesSlot(normalizePath(rootDir, p)), src)
  /\ snapshot' = [snapshot EXCEPT !.handed = @ \cup SnapshotKeysOf(shared, src)]
  /\ UNCHANGED rootDir

\* The first entry of changedFiles under key k (0 when there is none).
FirstEntry(changedFiles, k) ==
  LET at == {i \in 1..Len(changedFiles) : changedFiles[i].key = k}
  IN IF at = {} THEN 0 ELSE CHOOSE i \in at : \A j \in at : i <= j

\* The entry of the batch at which the array object of entry i is first
\* carried as a new object (0 when it is an object a slot holds).
NewAt(changedFiles, srcs, i) ==
  IF srcs[i] = NewArray THEN i
  ELSE IF srcs[i][1] = "batch" THEN FirstEntry(changedFiles, srcs[i][2])
  ELSE 0

\* The objects the i-th array of a batch can be: those of SourcesOf, and a
\* new array object that an earlier entry of the batch carries as well.
BatchSourcesOf(changedFiles, srcs, i) ==
  SourcesOf(changedFiles[i].value)
  \cup {BatchEntry(changedFiles[j].key) :
          j \in {e \in 1..(i - 1) : /\ srcs[e] = NewArray
                                    /\ FirstEntry(changedFiles, changedFiles[e].key) = e
                                    /\ changedFiles[e].value = changedFiles[i].value}}

\* The array identities after the loop of bulkAddOrModify.  Every array
\* of changedFiles is the object the caller put into the batch before the
\* call, so a slot in srcs names what the slot held when the call began,
\* whatever an earlier entry of the batch has set at that slot since.  An
\* entry set twice holds the array of its last entry, and two entries that
\* carry one new array object hold the same object afterwards.
BulkAttach(sh, changedFiles, srcs) ==
  LET written(s) == {i \in 1..Len(changedFiles) : FilesSlot(changedFiles[i].key) = s}
      last(s) == CHOOSE i \in written(s) : \A j \in written(s) : j <= i
      \* the entry that brought the new object s holds after the call, or 0
      newAt(s) == IF written(s) # {} THEN NewAt(changedFiles, srcs, last(s)) ELSE 0
      \* the slots that held, when the call began, the object s holds after it
      before(s) == IF newAt(s) # 0 THEN {}
                   ELSE IF written(s) # {} THEN GroupOf(sh, srcs[last(s)])
                   ELSE GroupOf(sh, s)
      slots == UNION sh
               \cup {FilesSlot(changedFiles[i].key) : i \in 1..Len(changedFiles)}
               \cup {srcs[i] : i \in {j \in 1..Len(srcs) : NewAt(changedFiles, srcs, j) = 0}}
      groups == {{t \in slots : newAt(t) = newAt(s) /\ before(t) = before(s)} : s \in slots}
  IN {g \in groups : Cardinality(g) >= 2}

BulkAddOrModify(changedFiles, srcs) ==
  /\ Len(srcs) = Len(changedFiles)
  /\ \A i \in 1..Len(srcs) : srcs[i] \in BatchSourcesOf(changedFiles, srcs, i)
  /\ files' = bulkAddOrModify(files, changedFiles)
  /\ Len(files') <= MaxFiles
  /\ call' = [Call("bulkAddOrModify", NoPath, NoMetadata)
                EXCEPT !.batch = changedFiles, !.sources = srcs]
  /\ ret' = RetVoid
  /\ shared' = BulkAttach(shared, changedFiles, srcs)
  /\ snapshot' = [snapshot EXCEPT !.handed =
                    @ \cup UNION {SnapshotKeysOf(shared, srcs[i]) : i \in 1..Len(srcs)}]
  /\ UNCHANGED rootDir

\* A batch whose arrays are all new objects.
AllNew(changedFiles) == [i \in 1..Len(changedFiles) |-> NewArray]

Remove(p) ==
  /\ files' = remove(rootDir, files, p).files
  /\ call' = Call("remove", p, NoMetadata)
  /\ ret' = remove(rootDir, files, p).ret
  /\ shared' = Detach(shared, FilesSlot(normalizePath(rootDir, p)))
  /\ UNCHANGED <<rootDir, snapshot>>

\* A query: the index is left as it is.
Query(op, p, result) ==
  /\ call' = Call(op, p, NoMetadata)
  /\ ret' = result
  /\ UNCHANGED <<rootDir, files, snapshot, shared>>

Exists(p) == Query("exists", p, exists(rootDir, files, p))

GetModuleName(p) == Query("getModuleName", p, getModuleName(rootDir, files, p))

GetSize(p) == Query("getSize", p, getSize(rootDir, files, p))

GetSha1(p) == Query("getSha1", p, getSha1(rootDir, files, p))

GetDependencies(p) == Query("getDependencies", p, getDependencies(rootDir, files, p))

LinkStats(p) == Query("linkStats", p, linkStats(rootDir, files, p))

GetAllFiles == Query("getAllFiles", NoPath, RetArray(getAllFiles(rootDir, files)))

MatchFilesWithContext(root, recursive, filter) ==
  /\ call' = [Call("matchFilesWithContext", NoPath, NoMetadata)
                EXCEPT !.root = root, !.recursive = recursive, !.filter = filter]
  /\ ret' = RetArray(matchFilesWithContext(rootDir, files, root, recursive, filter))
  /\ UNCHANGED <<rootDir, files, snapshot, shared>>

\* The array identities once the caller holds the Map that
\* getSerializableSnapshot built: the slots of the Map it held before are
\* gone, and a new slot whose array was not copied joins the group of the
\* index's slot of the same key.
SharedAfterSnapshot(sh, aliased) ==
  LET kept == {g \in {{s \in h : s[1] = "files"} : h \in sh} : g # {}}
      alone == {{FilesSlot(k)} : k \in {a \in aliased : \A g \in kept : FilesSlot(a) \notin g}}
      joined == {g \cup {SnapshotSlot(k) : k \in {a \in aliased : FilesSlot(a) \in g}} :
                   g \in kept \cup alone}
  IN {g \in joined : Cardinality(g) >= 2}

TakeSnapshot ==
  /\ snapshot' = [taken |-> TRUE,
                  map |-> getSerializableSnapshot(files).map,
                  handed |-> {}]
  /\ shared' = SharedAfterSnapshot(shared, getSerializableSnapshot(files).aliased)
  /\ call' = Call("getSerializableSnapshot", NoPath, NoMetadata)
  /\ ret' = RetMap(getSerializableSnapshot(files).map)
  /\ UNCHANGED <<rootDir, files>>

(***************************************************************************)
(* The caller's own changes to the snapshot it was handed: setting and     *)
(* deleting entries of the Map, and writing an element of one of its       *)
(* arrays.  A write to an array object is a write to every slot that       *)
(* holds it.                                                               *)
(***************************************************************************)
SnapshotSet(k, md, src) ==
  /\ snapshot.taken
  /\ src \in SourcesOf(md)
  /\ Len(MapSet(snapshot.map, k, md)) <= MaxFiles
  /\ snapshot' = [snapshot EXCEPT
                    !.map = MapSet(@, k, md),
                    !.handed =
                      IF src = NewArray THEN @ \ {k}
                      ELSE IF \E s \in GroupOf(shared, src) : s[1] = "files"
                           THEN @ \cup {k} \cup SnapshotKeysOf(shared, src)
                           ELSE IF SnapshotKeysOf(shared, src) \cap @ # {}
                                THEN @ \cup {k} ELSE @ \ {k}]
  /\ shared' = Attach(shared, SnapshotSlot(k), src)
  /\ call' = [Call("snapshot.set", k, md) EXCEPT !.sources = <<src>>]
  /\ ret' = RetVoid
  /\ UNCHANGED <<rootDir, files>>

SnapshotDelete(k) ==
  /\ snapshot.taken
  /\ MapHas(snapshot.map, k)
  /\ snapshot' = [snapshot EXCEPT !.map = MapDelete(@, k), !.handed = @ \ {k}]
  /\ shared' = Detach(shared, SnapshotSlot(k))
  /\ call' = Call("snapshot.delete", k, NoMetadata)
  /\ ret' = RetVoid
  /\ UNCHANGED <<rootDir, files>>

\* m with the array of every slot of group g (of the Map called where)
\* replaced by written.
WriteThrough(m, where, g, written) ==
  [i \in 1..Len(m) |->
     IF <<where, m[i].key>> \in g THEN [key |-> m[i].key, value |-> written]
     ELSE m[i]]

SnapshotWrite(k, field, v) ==
  /\ snapshot.taken
  /\ MapHas(snapshot.map, k)
  /\ LET written == [MapGet(snapshot.map, k) EXCEPT ![field] = v]
         g == GroupOf(shared, SnapshotSlot(k))
     IN /\ snapshot' = [snapshot EXCEPT !.map = WriteThrough(@, "snapshot", g, written)]
        /\ files' = WriteThrough(files, "files", g, written)
  /\ call' = Call("snapshot.write", k, NoMetadata)
  /\ ret' = RetVoid
  /\ UNCHANGED <<rootDir, shared>>

\* The element a caller overwrites in a snapshot array.
WrittenSize == Num(99)

(***************************************************************************)
(* Spec: mutations and point queries.                                      *)
(***************************************************************************)
Next ==
  \/ \E p \in PointPaths, md \in Records : AddOrModify(p, md, NewArray)
  \/ \E changedFiles \in Batches : BulkAddOrModify(changedFiles, AllNew(changedFiles))
  \/ \E p \in PointPaths : Remove(p)
  \/ \E p \in PointPaths : Exists(p)
  \/ \E p \in PointPaths : GetModuleName(p)
  \/ \E p \in PointPaths : GetSize(p)
  \/ \E p \in PointPaths : GetSha1(p)
  \/ \E p \in PointPaths : GetDependencies(p)
  \/ \E p \in PointPaths : LinkStats(p)

Spec == Init /\ [][Next]_vars

(***************************************************************************)
(* SpecMatch: mutations, enumeration and context queries.                  *)
(***************************************************************************)
NextMatch ==
  \/ \E p \in MatchPaths, md \in Records : AddOrModify(p, md, NewArray)
  \/ \E changedFiles \in Batches : BulkAddOrModify(changedFiles, AllNew(changedFiles))
  \/ \E p \in MatchPaths : Remove(p)
  \/ GetAllFiles
  \/ \E root \in QueryRoots, recursive \in BOOLEAN, filter \in Filters :
       MatchFilesWithContext(root, recursive, filter)

SpecMatch == Init /\ [][NextMatch]_vars

(***************************************************************************)
(* SpecSnap: mutations, snapshots, and the caller's changes to a snapshot. *)
(***************************************************************************)
\* The values a caller around a snapshot passes: the records it makes up,
\* and the arrays it finds in the snapshot it holds.
SnapValues == SnapRecords \cup {snapshot.map[i].value : i \in 1..Len(snapshot.map)}

NextSnap ==
  \/ \E p \in SnapPaths, md \in SnapValues :
       \E src \in SourcesOf(md) : AddOrModify(p, md, src)
  \/ \E md \in SnapValues :
       \E src \in SourcesOf(md) :
         BulkAddOrModify(<<[key |-> <<"src", "a.js">>, value |-> md]>>, <<src>>)
  \/ \E k1 \in SnapKeys, md1 \in SnapRecords, md2 \in SnapValues :
       \E k2 \in SnapKeys \ {k1}, src2 \in (SourcesOf(md2) \ {NewArray}) \cup {BatchEntry(k1)} :
         BulkAddOrModify(<<[key |-> k1, value |-> md1], [key |-> k2, value |-> md2]>>,
                         <<NewArray, src2>>)
  \/ \E p \in SnapPaths : Remove(p)
  \/ TakeSnapshot
  \/ \E k \in SnapKeys, md \in SnapRecords :
       \E src \in SourcesOf(md) : SnapshotSet(k, md, src)
  \/ \E k \in SnapKeys : SnapshotDelete(k)
  \/ \E k \in SnapKeys : SnapshotWrite(k, H_SIZE, WrittenSize)

SpecSnap == Init /\ [][NextSnap]_vars

(***************************************************************************)
(* Vocabulary of the properties.                                           *)
(***************************************************************************)
PointQueries ==
  {"exists", "getModuleName", "getSize", "getSha1", "getDependencies", "linkStats"}

\* The answer of point query q for path p on an index (root, fs).
PointQuery(q, root, fs, p) ==
  CASE q = "exists" -> exists(root, fs, p)
    [] q = "getModuleName" -> getModuleName(root, fs, p)
    [] q = "getSize" -> getSize(root, fs, p)
    [] q = "getSha1" -> getSha1(root, fs, p)
    [] q = "getDependencies" -> getDependencies(root, fs, p)
    [] OTHER -> linkStats(root, fs, p)

\* A file map that holds the one record md, under p exactly as given.
OnlyRecord(p, md) == <<[key |-> p, value |-> md]>>

\* The file a root-relative key denotes: the names of its absolute path.
Denotes(k) == ResolvedNames(rootDir \o k)

\* The canonical key of a file: the path from the root directory to it.
CanonicalKeyOf(names) == PathRelative(rootDir, <<"">> \o names)

IsCanonicalKey(k) == ~IsAbsolute(k) /\ k = CanonicalKeyOf(Denotes(k))

AllKeysCanonical == \A i \in 1..Len(files) : IsCanonicalKey(files[i].key)

InSeq(x, seq) == \E i \in 1..Len(seq) : seq[i] = x

RECURSIVE Join(_)
\* The components joined by the dependency delimiter.
Join(parts) ==
  IF Len(parts) = 1 THEN parts[1]
  ELSE parts[1] \o <<H_DEPENDENCY_DELIM>> \o Join(Tail(parts))

IndexMutations == {"addOrModify", "bulkAddOrModify", "remove"}

SnapshotEdits == {"snapshot.set", "snapshot.delete", "snapshot.write"}

(***************************************************************************)
(* C1.  After addOrModify(P, R), exists(P) is true and every point query   *)
(* for P answers with the fields of R: as an index holding R alone under   *)
(* P would answer.                                                         *)
(***************************************************************************)
C1_AddThenQuery ==
  call.op = "addOrModify" =>
    \A q \in PointQueries :
      PointQuery(q, rootDir, files, call.path)
        = PointQuery(q, rootDir, OnlyRecord(call.path, call.metadata), call.path)

(***************************************************************************)
(* C2.  When exists(P) is true, remove(P) returns the record stored for P  *)
(* and exists(P) is false right after it; when exists(P) is false (as      *)
(* after a first removal), remove(P) returns null.                         *)
(***************************************************************************)
C2_RemoveOnce ==
  [][call'.op = "remove" =>
       IF exists(rootDir, files, call'.path).val
       THEN /\ ret' = RetMetadata(getFileData(rootDir, files, call'.path))
            /\ ~exists(rootDir, files', call'.path).val
       ELSE ret' = RetNull]_vars

(***************************************************************************)
(* C3.  Every key of the file map is canonical (relative to the root       *)
(* directory, '.' and '..' resolved), none is absolute, and no two keys    *)
(* denote the same file.                                                   *)
(***************************************************************************)
C3_KeysCanonical ==
  /\ \A i \in 1..Len(files) : ~IsAbsolute(files[i].key)
  /\ \A i \in 1..Len(files) : IsCanonicalKey(files[i].key)
  /\ \A i, j \in 1..Len(files) :
       i # j => Denotes(files[i].key) # Denotes(files[j].key)

(***************************************************************************)
(* C4.  For every relative key K of the file map and the absolute path A   *)
(* that K resolves to against the root directory, each point query gives   *)
(* the same answer for A as for K.                                         *)
(***************************************************************************)
C4_AbsoluteSameAsRelative ==
  \A i \in 1..Len(files) :
    LET K == files[i].key
        A == PathResolve(rootDir, K)
    IN ~IsAbsolute(K) =>
         \A q \in PointQueries :
           PointQuery(q, rootDir, files, A) = PointQuery(q, rootDir, files, K)

(***************************************************************************)
(* C5.  getDependencies(P) is null exactly when no record is found for P;  *)
(* for a record whose dependency field is absent or empty it is the empty  *)
(* array; otherwise it is the components of the stored string in order:    *)
(* joined by the delimiter they give the string back, and none contains    *)
(* the delimiter.  "b.js<DELIM>c.js" gives ["b.js", "c.js"].               *)
(***************************************************************************)
C5_Dependencies ==
  call.op = "getDependencies" =>
    LET md == getFileData(rootDir, files, call.path)
        known == \E i \in 1..Len(files) :
                   \/ files[i].key = call.path
                   \/ files[i].key = normalizePath(rootDir, call.path)
    IN /\ (ret = RetNull) <=> ~known
       /\ known =>
            LET deps == md[H_DEPENDENCIES]
            IN IF deps = Undef \/ deps = Str(<<>>)
               THEN ret = RetArray(<<>>)
               ELSE /\ ret.kind = "array"
                    /\ Len(ret.val) >= 1
                    /\ Join(ret.val) = deps.s
                    /\ \A j \in 1..Len(ret.val) :
                         ~Includes(ret.val[j], H_DEPENDENCY_DELIM)
                    /\ deps.s = DepsBC =>
                         ret.val = <<DepB, DepC>>

C5_Witness ==
  /\ call.op = "getDependencies"
  /\ ret.kind = "array"
  /\ ret = RetArray(<<DepB, DepC>>)

(***************************************************************************)
(* C6.  linkStats(P) is null when no record is found for P; when the       *)
(* record's mtime is not a number the call throws, and the file map is     *)
(* left as it was; otherwise modifiedTime is the mtime and fileType is     *)
(* 'f' when the symlink field is 0 and 'l' when it is anything else.       *)
(***************************************************************************)
C6_LinkStats ==
  [][call'.op = "linkStats" =>
       LET md == getFileData(rootDir, files, call'.path)
       IN /\ files' = files
          /\ IF md = undefined THEN ret' = RetNull
             ELSE IF md[H_MTIME].t # "number" THEN ret'.kind = "throw"
             ELSE /\ ret'.kind = "stats"
                  /\ ret'.val.modifiedTime = md[H_MTIME].n
                  /\ ret'.val.fileType = "f" <=> md[H_SYMLINK] = Num(0)
                  /\ ret'.val.fileType = "l" <=> md[H_SYMLINK] # Num(0)]_vars

C6_Witness ==
  /\ call.op = "linkStats"
  /\ ret.kind = "throw"
  /\ getFileData(rootDir, files, call.path) # undefined

(***************************************************************************)
(* C7.  An index constructed from the same root directory and the Map      *)
(* that getSerializableSnapshot returned answers every point query, for    *)
(* every path, as the index the snapshot was taken of.                     *)
(***************************************************************************)
C7_SnapshotRoundTrip ==
  call.op = "getSerializableSnapshot" =>
    LET fresh == constructor(rootDir, ret.val)
    IN \A p \in Paths, q \in PointQueries :
         PointQuery(q, fresh.rootDir, fresh.files, p)
           = PointQuery(q, rootDir, files, p)

C7_Witness ==
  /\ call.op = "getSerializableSnapshot"
  /\ Len(files) = 2
  /\ \E i \in 1..Len(files) : ~IsCanonicalKey(files[i].key)
  /\ exists(rootDir, ret.val, <<"", "proj", "src", "", "a.js">>).val

(***************************************************************************)
(* C8.  A snapshot is independent of the index: addOrModify,               *)
(* bulkAddOrModify and remove leave the snapshot's keys and records as     *)
(* they were, and setting or deleting an entry of the snapshot, or         *)
(* writing into one of its arrays, leaves the file map as it was.          *)
(* Stated for every later change, this fails: addOrModify and              *)
(* bulkAddOrModify store the array they are given, so a snapshot array     *)
(* the caller passes back to the index is then the index's own record.     *)
(***************************************************************************)
C8_SnapshotIndependent ==
  [][/\ (snapshot.taken /\ call'.op \in IndexMutations)
          => snapshot'.map = snapshot.map
     /\ call'.op \in SnapshotEdits => files' = files]_vars

(***************************************************************************)
(* C8, amended.  The snapshot is independent of the index as long as the   *)
(* caller does not itself make them share an array: addOrModify,           *)
(* bulkAddOrModify and remove leave the snapshot's keys and records as     *)
(* they were; setting or deleting an entry of the snapshot leaves the      *)
(* file map as it was; and writing into a snapshot array leaves the file   *)
(* map as it was unless the caller has, since the snapshot was returned,   *)
(* passed that array to the index or put an array of the index there.     *)
(***************************************************************************)
C8_IndependentUntilHanded ==
  [][/\ (snapshot.taken /\ call'.op \in IndexMutations)
          => snapshot'.map = snapshot.map
     /\ call'.op \in {"snapshot.set", "snapshot.delete"} => files' = files
     /\ (call'.op = "snapshot.write" /\ call'.path \notin snapshot.handed)
          => files' = files]_vars

C8_Witness ==
  /\ call.op = "snapshot.write"
  /\ call.path \notin snapshot.handed
  /\ MapHas(files, call.path)
  /\ MapHas(snapshot.map, call.path)
  /\ MapGet(snapshot.map, call.path)[H_SIZE] = WrittenSize
  /\ MapGet(files, call.path)[H_SIZE] # WrittenSize

(***************************************************************************)
(* Context queries: the files of the scenario, and the result the          *)
(* description of matchFilesWithContext calls for.                         *)
(***************************************************************************)
KeyA == <<"src", "a.js">>
KeyB == <<"src", "sub", "b.js">>
FileA == <<"", "proj", "src", "a.js">>
FileB == <<"", "proj", "src", "sub", "b.js">>

\* The index contains /proj/src/a.js and /proj/src/sub/b.js.
HoldsAAndB == MapHas(files, KeyA) /\ MapHas(files, KeyB)

\* The indexed file lies under the query root: below it in the tree.
LiesUnder(file, root) ==
  LET f == ResolvedNames(file)
      r == ResolvedNames(root)
  IN Len(f) > Len(r) /\ SubSeq(f, 1, Len(r)) = r

\* './' followed by the path of the file relative to the query root.
Subject(file, root) ==
  LET f == ResolvedNames(file)
      r == ResolvedNames(root)
  IN <<".", "/">> \o PathChars(SubSeq(f, Len(r) + 1, Len(f)))

IsDirectChild(file, root) ==
  Len(ResolvedNames(file)) = Len(ResolvedNames(root)) + 1

Qualifies(file, root, recursive, filter) ==
  /\ LiesUnder(file, root)
  /\ recursive \/ IsDirectChild(file, root)
  /\ RegExpTest(filter, Subject(file, root))

\* The qualifying absolute paths, in the iteration order of the file map.
ExpectedMatches(root, recursive, filter) ==
  SelectSeq(getAbsoluteFileIterator(rootDir, files),
            LAMBDA file : Qualifies(file, root, recursive, filter))

(***************************************************************************)
(* C9, as stated.  With /proj/src/a.js and /proj/src/sub/b.js indexed, a   *)
(* query with root /proj, recursive false and a filter for ./<name>.js     *)
(* returns /proj/src/a.js and not /proj/src/sub/b.js; with recursive true  *)
(* and the filter allowing nested segments it returns both.                *)
(***************************************************************************)
C9_RootProj ==
  (call.op = "matchFilesWithContext" /\ HoldsAAndB /\ call.root = ProjRoot) =>
    /\ (~call.recursive /\ call.filter = "direct")
         => (InSeq(FileA, ret.val) /\ ~InSeq(FileB, ret.val))
    /\ (call.recursive /\ call.filter = "nested")
         => (InSeq(FileA, ret.val) /\ InSeq(FileB, ret.val))

(***************************************************************************)
(* C9, amended.  With /proj/src/a.js and /proj/src/sub/b.js indexed: a     *)
(* query with root /proj/src, recursive false and a filter for ./<name>.js *)
(* returns /proj/src/a.js and not /proj/src/sub/b.js, while the same query *)
(* with root /proj returns neither; with recursive true and the filter     *)
(* allowing nested segments, root /proj and root /proj/src each return     *)
(* both.                                                                   *)
(***************************************************************************)
C9_RootSrc ==
  (call.op = "matchFilesWithContext" /\ HoldsAAndB) =>
    /\ (call.root = SrcDir /\ ~call.recursive /\ call.filter = "direct")
         => (InSeq(FileA, ret.val) /\ ~InSeq(FileB, ret.val))
    /\ (call.root = ProjRoot /\ ~call.recursive /\ call.filter = "direct")
         => (~InSeq(FileA, ret.val) /\ ~InSeq(FileB, ret.val))
    /\ (call.recursive /\ call.filter = "nested")
         => (InSeq(FileA, ret.val) /\ InSeq(FileB, ret.val))

C9_Witness ==
  /\ call.op = "matchFilesWithContext"
  /\ HoldsAAndB
  /\ call.root = SrcDir
  /\ ~call.recursive
  /\ call.filter = "direct"
  /\ ret = RetArray(<<FileA>>)

(***************************************************************************)
(* C10.  matchFilesWithContext(Q, {recursive, filter}) returns exactly the *)
(* absolute paths of the indexed files under Q (direct children only when  *)
(* recursive is false) whose subject matches the filter, in the iteration  *)
(* order of the file map.  Stated for the file maps whose keys are all     *)
(* canonical.                                                              *)
(***************************************************************************)
C10_ExactMatches ==
  (call.op = "matchFilesWithContext" /\ AllKeysCanonical) =>
    ret = RetArray(ExpectedMatches(call.root, call.recursive, call.filter))

====
